---- MODULE Spec2Model ----
(***************************************************************************)
(* memsearch: the indexing pipeline (MemSearch), the Milvus chunk store,   *)
(* the watcher callback and the SQLite embedding cache.                    *)
(*                                                                         *)
(* Spec       the pipeline: files on disk, the store collection, the       *)
(*            embedding backend's call log, the watcher's event queue.     *)
(* SpecCache  the EmbeddingCache object driven through its public methods. *)
(***************************************************************************)
EXTENDS Integers, Sequences, FiniteSets, Bags, TLC

VARIABLES
    files,       \* path -> the file's chunk texts in document order, or NoFile
    store,       \* the memsearch_chunks collection: a bag of records (auto_id rows)
    embedCalls,  \* text -> embed() calls that held it: "never", "once", "again"
    events,      \* watchdog's event queue: filesystem events not yet dispatched
    watcher,     \* the FileWatcher's observer thread: "idle" (not started),
                 \* "watching", "stopped", or "crashed" (ended by an exception)
    watched,     \* the roots scheduled on the observer
    scan,        \* a scan_paths call: its roots and its result
    parse,       \* a parse_session_file call: the file's lines and its result
    collections, \* store URI -> dimension of its memsearch_chunks collection
                 \* (NoCollection before the collection is created)
    instances,   \* the MemSearch objects constructed so far, in order
    indexed,     \* the files whose present content _index_file has passed over
    flight,      \* the callback call the observer thread is in: its event, how
                 \* far it has come, the records it is about to write
    idx,         \* the running index() call: its remaining files, force, total
    last,        \* the most recent step: its operation, arguments and result
    cache,       \* embeddings table as the open connection reads it:
                 \* <<content_hash, model>> -> stored JSON text, or NoRow
    disk,        \* embeddings table as committed: what a new connection reads
    cleared,     \* has clear() been called on the cache
    latest,      \* <<content_hash, model>> -> the vector most recently written on this
                 \* connection (as found in the database when it was opened), or None
    cop          \* the most recent EmbeddingCache call: its arguments and result

ctorVars == <<collections, instances>>
pipeVars == <<files, store, embedCalls, events, watcher, watched, scan, parse, ctorVars,
              indexed, flight, idx, last>>
cacheVars == <<cache, disk, cleared, latest, cop>>
vars == <<files, store, embedCalls, events, watcher, watched, scan, parse,
          collections, instances, indexed, flight, idx, last,
          cache, disk, cleared, latest, cop>>

-----------------------------------------------------------------------------
(* Bounds *)

MaxQueue == 2        \* undispatched filesystem events
MaxBatch == 2        \* items in one put_batch / hashes in one get_batch
MaxRoots == 3        \* entries of the paths list given to scan_paths
MaxLines == 3        \* lines of a session log
MaxInstances == 3    \* MemSearch objects constructed

-----------------------------------------------------------------------------
(* The universe of the pipeline *)

Paths == {"a.md", "b.md"}

\* every file with content: the two above and one with an upper-case extension
Files == Paths \cup {"N.Markdown"}
Texts == {"t1", "t2"}
NoFile == <<"absent">>

\* Versions a markdown file takes: no chunk, two passages, one passage twice.
Contents == {<<>>, <<"t1", "t2">>, <<"t1", "t1">>}

Range(s) == {s[i] : i \in DOMAIN s}

\* Paths sort as their strings do.
PathRank(p) ==
    IF p = "/docs/.git/deep/d.md" THEN 1
    ELSE IF p = "/docs/.git/h.md" THEN 2
    ELSE IF p = "/docs/.x.md" THEN 3
    ELSE IF p = "/docs/N.Markdown" THEN 4
    ELSE IF p \in {"a.md", "/docs/a.md"} THEN 5
    ELSE IF p \in {"b.md", "/docs/b.md"} THEN 6
    ELSE IF p = "/docs/c.txt" THEN 7
    ELSE IF p = "/docs/link.md" THEN 8
    ELSE IF p = "/docs/sub/s.md" THEN 9
    ELSE 10

\* chunk_hash is a digest of the chunk content alone.
ChunkHash(t) == IF t = "t1" THEN "h1" ELSE IF t = "t2" THEN "h2" ELSE "h3"

\* chunk_markdown(text, source): one Chunk per passage, in document order.
chunk_markdown(text, source) ==
    [i \in DOMAIN text |->
        [content |-> text[i], source |-> source, chunk_hash |-> ChunkHash(text[i])]]

\* The embedding backend: one vector per text, same length and order.
Vector(t) == <<"vec", t>>
embed(texts) == [i \in DOMAIN texts |-> Vector(texts[i])]

Occurrences(s, x) == Cardinality({i \in DOMAIN s : s[i] = x})

-----------------------------------------------------------------------------
(* MilvusStore *)

BagOfSeq(s) == [r \in Range(s) |-> Occurrences(s, r)]

StoreRecords(st) == BagToSet(st)

\* a delete that stops at the first matching row
delete_by_source_one(st, source) ==
    IF \A x \in DOMAIN st : x.source # source THEN st
    ELSE st (-) SetToBag({CHOOSE x \in DOMAIN st : x.source = source})

\* a filter that matches no row
delete_by_source_nomatch(st, source) == st

\* client.delete(filter='source == "<source>"')
delete_by_source(st, source) ==
    [r \in {x \in DOMAIN st : x.source # source} |-> st[r]]

\* client.delete(filter='chunk_hash in [...]'); nothing when hashes is empty
delete_by_hashes(st, hashes) ==
    IF hashes = <<>> THEN st
    ELSE [r \in {x \in DOMAIN st : x.chunk_hash \notin Range(hashes)} |-> st[r]]

\* the subset of hashes some stored record carries
existing_hashes(st, hashes) ==
    {h \in Range(hashes) : \E r \in DOMAIN st : r.chunk_hash = h}

\* upsert: delete the batch's hashes, then insert every row of the batch
\* (the primary key is the auto id, so each row becomes a record).
upsert(st, chunks) ==
    IF chunks = <<>> THEN [store |-> st, ret |-> 0]
    ELSE LET hashes == [i \in DOMAIN chunks |-> chunks[i].chunk_hash]
         IN  [store |-> delete_by_hashes(st, hashes) (+) BagOfSeq(chunks),
              ret   |-> Len(chunks)]

SourceCount(st, source) ==
    BagCardinality([r \in {x \in DOMAIN st : x.source = source} |-> st[r]])

HashCount(st, h) ==
    BagCardinality([r \in {x \in DOMAIN st : x.chunk_hash = h} |-> st[r]])

-----------------------------------------------------------------------------
(* MemSearch *)

\* _embed_and_store: one embed() call over the chunk contents, one record per
\* chunk, then store.upsert.
embed_and_store(st, chunks, doc_type) ==
    IF chunks = <<>> THEN [store |-> st, ret |-> 0, embedded |-> <<>>, written |-> <<>>]
    ELSE LET contents   == [i \in DOMAIN chunks |-> chunks[i].content]
             embeddings == embed(contents)
             records    == [i \in DOMAIN chunks |->
                               [chunk_hash |-> chunks[i].chunk_hash,
                                embedding  |-> embeddings[i],
                                content    |-> chunks[i].content,
                                source     |-> chunks[i].source,
                                doc_type   |-> doc_type]]
             up         == upsert(st, records)
         IN  [store |-> up.store, ret |-> up.ret,
              embedded |-> contents, written |-> records]

\* the existence check left out
ChunksToWrite_noskip(st, chunks, force) == chunks

\* the chunks _index_file hands on: all of them when forced, else those whose
\* hash the store does not hold
ChunksToWrite(st, chunks, force) ==
    IF force THEN chunks
    ELSE LET all_hashes == [i \in DOMAIN chunks |-> chunks[i].chunk_hash]
             existing   == existing_hashes(st, all_hashes)
         IN  SelectSeq(chunks, LAMBDA c : c.chunk_hash \notin existing)

\* _index_file(f, force) on a file that can be read
index_file_pass(st, path, text, force) ==
    LET chunks == chunk_markdown(text, path)
    IN  embed_and_store(st, ChunksToWrite(st, chunks, force), "markdown")

\* the backend's call log per text: held by no embed() call so far, by one,
\* by a later one again
Tally(prev, held) ==
    IF ~held THEN prev
    ELSE IF prev = "never" THEN "once" ELSE "again"

CountEmbeds(calls, texts) == [t \in Texts |-> Tally(calls[t], t \in Range(texts))]

\* the embed() calls of one _embed_and_store: none without chunks, else one
Batches(contents) == IF contents = <<>> THEN <<>> ELSE <<contents>>

NoSummary == <<"<None>">>

NoOp ==
    [op |-> "none", via |-> "none", path |-> "none", event_type |-> "none", force |-> FALSE,
     embedded |-> <<>>, batches |-> <<>>, written |-> <<>>, ret |-> 0, before |-> 0,
     summarized |-> FALSE, summary |-> NoSummary, replay |-> FALSE]

\* the observer thread is in no callback call
NoFlight == [stage |-> "idle", event_type |-> "none", file_path |-> "none", records |-> <<>>]

IdleIdx == [active |-> FALSE, force |-> FALSE, queue |-> <<>>, total |-> 0]

\* the watcher callback handles the event it handled in the step before
Replayed(op, via, p) ==
    via = "watch" /\ last.via = "watch" /\ last.op = op /\ last.path = p

\* One pass of _index_file over path p, reached through `via`.
Pass(p, force, via) ==
    /\ files[p] # NoFile
    /\ LET res == index_file_pass(store, p, files[p], force)
       IN  /\ store' = res.store
           /\ embedCalls' = CountEmbeds(embedCalls, res.embedded)
           /\ indexed' = indexed \cup {p}
           /\ last' = [op |-> "pass", via |-> via, path |-> p, event_type |-> "none",
                       force |-> force,
                       embedded |-> res.embedded, batches |-> Batches(res.embedded),
                       written |-> res.written, ret |-> res.ret,
                       before |-> SourceCount(store, p),
                       summarized |-> FALSE, summary |-> NoSummary,
                       replay |-> Replayed("pass", via, p)]

\* The operation raised before touching the store.
Raised(p, via) ==
    last' = [NoOp EXCEPT !.op = "raised", !.via = via, !.path = p]

\* MemSearch.index_file(path), called by the application
IndexFile(p) ==
    /\ Pass(p, FALSE, "index_file")
    /\ UNCHANGED <<files, events, watcher, idx, watched, scan, parse, ctorVars, flight, cacheVars>>

\* index_file on a path that does not exist: p.stat() raises
IndexFileMissing(p) ==
    /\ files[p] = NoFile
    /\ Raised(p, "index_file")
    /\ UNCHANGED <<files, store, embedCalls, events, watcher, idx, watched, scan, parse, ctorVars, indexed, flight, cacheVars>>

\* scan_paths(self._paths): the markdown files under the roots, sorted by path
scan_paths(fs) ==
    LET found == {p \in Paths : fs[p] # NoFile}
    IN  CHOOSE s \in [1..Cardinality(found) -> found] :
            /\ \A i, j \in DOMAIN s : i < j => PathRank(s[i]) < PathRank(s[j])

\* index() after the pass over one file: on to the next file, or return total
AfterFile(rest, force, total) ==
    IF rest = <<>> THEN IdleIdx
    ELSE [active |-> TRUE, force |-> force, queue |-> rest, total |-> total]

\* MemSearch.index(force): scan_paths, then the pass over the first file
IndexStart(force) ==
    /\ ~idx.active
    /\ scan_paths(files) # <<>>
    /\ Pass(Head(scan_paths(files)), force, "index")
    /\ idx' = AfterFile(Tail(scan_paths(files)), force, last'.ret)
    /\ UNCHANGED <<files, events, watcher, watched, scan, parse, ctorVars, flight, cacheVars>>

\* index() when the scan finds no file: returns 0
IndexNothing(force) ==
    /\ ~idx.active
    /\ scan_paths(files) = <<>>
    /\ last' = [NoOp EXCEPT !.op = "returned", !.via = "index", !.force = force]
    /\ UNCHANGED <<files, store, embedCalls, events, watcher, idx, watched, scan, parse, ctorVars, indexed, flight, cacheVars>>

\* index(): the pass over the next scanned file
IndexStep ==
    /\ idx.active
    /\ Pass(Head(idx.queue), idx.force, "index")
    /\ idx' = AfterFile(Tail(idx.queue), idx.force, idx.total + last'.ret)
    /\ UNCHANGED <<files, events, watcher, watched, scan, parse, ctorVars, flight, cacheVars>>

\* the file vanished after the scan: read_text raises and index() ends there
IndexStepMissing ==
    /\ idx.active
    /\ files[Head(idx.queue)] = NoFile
    /\ Raised(Head(idx.queue), "index")
    /\ idx' = IdleIdx
    /\ UNCHANGED <<files, store, embedCalls, events, watcher, watched, scan, parse, ctorVars, indexed, flight, cacheVars>>

\* _index_file whose embed() call raises: the exception leaves
\* _embed_and_store before store.upsert is reached
PassEmbedFails(p, force, via) ==
    /\ files[p] # NoFile
    /\ LET chunks   == ChunksToWrite(store, chunk_markdown(files[p], p), force)
           contents == [i \in DOMAIN chunks |-> chunks[i].content]
       IN  /\ chunks # <<>>
           /\ embedCalls' = CountEmbeds(embedCalls, contents)
           /\ last' = [NoOp EXCEPT !.op = "embed_raised", !.via = via, !.path = p,
                                   !.force = force, !.embedded = contents,
                                   !.batches = Batches(contents),
                                   !.before = SourceCount(store, p)]

\* index_file(path) with a failing embedding backend
IndexFileEmbedFails(p) ==
    /\ PassEmbedFails(p, FALSE, "index_file")
    /\ UNCHANGED <<files, store, events, watcher, idx, watched, scan, parse, ctorVars, indexed, flight, cacheVars>>

\* index(force): the backend fails on the first scanned file; the exception
\* leaves the for loop and index()
IndexStartEmbedFails(force) ==
    /\ ~idx.active
    /\ scan_paths(files) # <<>>
    /\ PassEmbedFails(Head(scan_paths(files)), force, "index")
    /\ UNCHANGED <<files, store, events, watcher, idx, watched, scan, parse, ctorVars, indexed, flight, cacheVars>>

\* index(): the backend fails on a later file
IndexStepEmbedFails ==
    /\ idx.active
    /\ PassEmbedFails(Head(idx.queue), idx.force, "index")
    /\ idx' = IdleIdx
    /\ UNCHANGED <<files, store, events, watcher, watched, scan, parse, ctorVars, indexed, flight, cacheVars>>

-----------------------------------------------------------------------------
(* Session logs *)

\* the sessions a log file holds, in first-seen order
Sessions == {"s1", "s2"}
Logs == {<<>>, <<"s1">>, <<"s1", "s2">>, <<"s2", "s1">>}
LogPath == "log.jsonl"

\* Session.to_markdown: the passages of the rendered session
to_markdown(session) == IF session = "s1" THEN <<"t1">> ELSE <<"t1", "t2">>

\* index_session over the sessions of a log: one _embed_and_store per session;
\* the result carries the store, the total and the backend's call log
RECURSIVE index_session(_, _, _, _)
index_session(st, calls, sessions, total) ==
    IF sessions = <<>>
    THEN [store |-> st, calls |-> calls, ret |-> total, batches |-> <<>>, written |-> <<>>]
    ELSE LET chunks == chunk_markdown(to_markdown(Head(sessions)), LogPath)
             res    == embed_and_store(st, chunks, "session")
             rest   == index_session(res.store, CountEmbeds(calls, res.embedded),
                                     Tail(sessions), total + res.ret)
         IN  [rest EXCEPT !.batches = Batches(res.embedded) \o @,
                          !.written = res.written \o @]

\* MemSearch.index_session(path) that returns
IndexSession(log) ==
    /\ LET res == index_session(store, embedCalls, log, 0)
       IN  /\ store' = res.store
           /\ embedCalls' = res.calls
           /\ last' = [NoOp EXCEPT !.op = "session", !.via = "index_session",
                                   !.path = LogPath, !.ret = res.ret,
                                   !.batches = res.batches, !.written = res.written,
                                   !.before = SourceCount(store, LogPath)]
    /\ UNCHANGED <<files, events, watcher, idx, watched, scan, parse, ctorVars, indexed, flight, cacheVars>>

\* index_session whose embed() call raises on the k-th session: the sessions
\* before it have been embedded and upserted
IndexSessionEmbedFails(log, k) ==
    /\ k \in DOMAIN log
    /\ LET res      == index_session(store, embedCalls, SubSeq(log, 1, k - 1), 0)
           contents == to_markdown(log[k])
       IN  /\ store' = res.store
           /\ embedCalls' = CountEmbeds(res.calls, contents)
           /\ last' = [NoOp EXCEPT !.op = "embed_raised", !.via = "index_session",
                                   !.path = LogPath, !.embedded = contents,
                                   !.batches = Append(res.batches, contents),
                                   !.written = res.written,
                                   !.before = SourceCount(store, LogPath)]
    /\ UNCHANGED <<files, events, watcher, idx, watched, scan, parse, ctorVars, indexed, flight, cacheVars>>

-----------------------------------------------------------------------------
(* Flush *)

NoSource == "<None>"            \* flush() without a source
FlushSource == "flush://memory"

\* what the summarization backend may answer, as the passages of the markdown
\* it returns: nothing, a new text, the text of a chunk it was given
Summaries == {<<>>, <<"sum">>, <<"t1">>}

\* f'source == "{source}"' if source else ""
FilterExpr(source) ==
    IF source # NoSource /\ source # "" THEN <<"source ==", source>> ELSE <<>>

\* store.search(dummy_emb, top_k=10000, filter_expr): the hits, every stored
\* record that passes the filter (the stores modelled hold far fewer than
\* top_k records)
search(st, filter_expr) ==
    IF filter_expr = <<>> THEN st
    ELSE [r \in {x \in DOMAIN st : x.source = filter_expr[2]} |-> st[r]]

\* the `if not all_chunks` return left out
flush_summary_always(st, all_chunks, summary) ==
    LET res == embed_and_store(st, chunk_markdown(summary, FlushSource), "flush")
    IN  [store |-> res.store, embedded |-> res.embedded, written |-> res.written,
         ret |-> res.ret, summarized |-> TRUE, summary |-> summary]

\* flush(source) from its search on: the summary the backend answered is
\* chunked under flush://memory, embedded and upserted with doc_type "flush"
flush_summary(st, all_chunks, summary) ==
    IF all_chunks = EmptyBag
    THEN [store |-> st, embedded |-> <<>>, written |-> <<>>, ret |-> 0,
          summarized |-> FALSE, summary |-> <<>>]
    ELSE LET res == embed_and_store(st, chunk_markdown(summary, FlushSource), "flush")
         IN  [store |-> res.store, embedded |-> res.embedded, written |-> res.written,
              ret |-> res.ret, summarized |-> TRUE, summary |-> summary]

\* MemSearch.flush(source=source), the backend answering `summary`
Flush(source, summary) ==
    /\ LET all_chunks == search(store, FilterExpr(source))
           res        == flush_summary(store, all_chunks, summary)
       IN  /\ store' = res.store
           /\ embedCalls' = CountEmbeds(embedCalls, res.embedded)
           /\ last' = [NoOp EXCEPT !.op = "flush", !.via = "flush", !.path = source,
                                   !.embedded = res.embedded, !.ret = res.ret,
                                   !.batches = Batches(res.embedded),
                                   !.written = res.written,
                                   !.before = BagCardinality(all_chunks),
                                   !.summarized = res.summarized,
                                   !.summary = res.summary]
    /\ UNCHANGED <<files, events, watcher, idx, watched, scan, parse, ctorVars, indexed, flight, cacheVars>>

-----------------------------------------------------------------------------
(* The filesystem and the watcher *)

\* self._paths of the FileWatcher: the directory docs, which holds a.md, b.md,
\* N.Markdown, c.txt and the directory sub.md, and the file top.md outside it
Roots == {"docs", "top.md"}
OtherPaths == {"c.txt", "sub.md", "top.md"}
Kinds == {"created", "modified", "deleted"}

\* p.is_dir() / event.is_directory
is_dir(p) == p \in {"docs", "sub.md"}

\* the directory a path lies under
Parent(p) == IF p = "top.md" THEN "home" ELSE "docs"

extensions == {".md", ".markdown"}

\* Path(path).suffix
suffix(path) ==
    IF path \in {"c.txt", "/docs/c.txt"} THEN ".txt"
    ELSE IF path \in {"N.Markdown", "/docs/N.Markdown"} THEN ".Markdown"
    ELSE IF path = "docs" THEN ""
    ELSE ".md"

\* str.lower()
lower(str) == IF str = ".Markdown" THEN ".markdown" ELSE str

\* the suffix compared as it is spelled
is_markdown_exact(path) == suffix(path) \in extensions

\* _MarkdownHandler._is_markdown
is_markdown(path) == lower(suffix(path)) \in extensions

\* on_created / on_modified / on_deleted: the callback invocations an event
\* leads to; an event of another kind goes to a method the handler does not
\* define, and FileSystemEventHandler's own does nothing
on_event(event) ==
    IF event.kind \in Kinds /\ ~event.is_directory /\ is_markdown(event.path)
    THEN <<[event_type |-> event.kind, file_path |-> event.path]>>
    ELSE <<>>

\* what the observer queues for a change under a watched root
Notify(kind, p) ==
    IF watcher = "watching" /\ Parent(p) \in watched
    THEN Append(events, [kind |-> kind, path |-> p, dest_path |-> "",
                         is_directory |-> is_dir(p)])
    ELSE events

\* what the observer queues for a rename inside a watched root: one moved
\* event with the old and the new path
NotifyMoved(p, q) ==
    IF watcher = "watching" /\ Parent(p) \in watched /\ Parent(q) \in watched
    THEN Append(events, [kind |-> "moved", path |-> p, dest_path |-> q,
                         is_directory |-> is_dir(p)])
    ELSE events

\* a markdown file is created or saved
FsWrite(p, text) ==
    /\ Len(events) < MaxQueue
    /\ files' = [files EXCEPT ![p] = text]
    /\ indexed' = indexed \ {p}
    /\ events' = Notify(IF files[p] = NoFile THEN "created" ELSE "modified", p)
    /\ last' = [NoOp EXCEPT !.op = "write", !.path = p]
    /\ UNCHANGED <<store, embedCalls, watcher, idx, watched, scan, parse, ctorVars, flight, cacheVars>>

\* a markdown file is removed
FsDelete(p) ==
    /\ Len(events) < MaxQueue
    /\ files[p] # NoFile
    /\ files' = [files EXCEPT ![p] = NoFile]
    /\ indexed' = indexed \ {p}
    /\ events' = Notify("deleted", p)
    /\ last' = [NoOp EXCEPT !.op = "unlink", !.path = p]
    /\ UNCHANGED <<store, embedCalls, watcher, idx, watched, scan, parse, ctorVars, flight, cacheVars>>

\* a markdown file is renamed from p to q, a name not in use
FsMove(p, q) ==
    /\ Len(events) < MaxQueue
    /\ p # q
    /\ files[p] # NoFile
    /\ files[q] = NoFile
    /\ files' = [files EXCEPT ![p] = NoFile, ![q] = files[p]]
    /\ indexed' = indexed \ {p, q}
    /\ events' = NotifyMoved(p, q)
    /\ last' = [NoOp EXCEPT !.op = "rename", !.path = p]
    /\ UNCHANGED <<store, embedCalls, watcher, idx, watched, scan, parse, ctorVars, flight, cacheVars>>

\* a change to something that is not a markdown file of the corpus: a text
\* file, a directory, a file outside the watched directory
FsOther(kind, p) ==
    /\ Len(events) < MaxQueue
    /\ events' = Notify(kind, p)
    /\ last' = [NoOp EXCEPT !.op = "other", !.path = p]
    /\ UNCHANGED <<files, store, embedCalls, watcher, idx, watched, scan, parse, ctorVars, indexed, flight, cacheVars>>

\* the observer reports a change a second time: the notification at the end
\* of the queue is queued again
FsRepeat ==
    /\ events # <<>>
    /\ Len(events) < MaxQueue
    /\ events' = Append(events, events[Len(events)])
    /\ last' = [NoOp EXCEPT !.op = "repeat", !.path = events[Len(events)].path]
    /\ UNCHANGED <<files, store, embedCalls, watcher, idx, watched, scan, parse, ctorVars, indexed, flight, cacheVars>>

\* FileWatcher.start(): schedule the roots that are directories, start the
\* observer thread
WatchStart ==
    /\ watcher = "idle"
    /\ watched' = {r \in Roots : is_dir(r)}
    /\ watcher' = "watching"
    /\ last' = [NoOp EXCEPT !.op = "start"]
    /\ UNCHANGED <<files, store, embedCalls, events, idx, scan, parse, ctorVars, indexed, flight, cacheVars>>

\* start() on a watcher that was started before: Thread.start raises
\* RuntimeError
WatchStartAgain ==
    /\ watcher # "idle"
    /\ last' = [NoOp EXCEPT !.op = "raised", !.via = "start"]
    /\ UNCHANGED <<files, store, embedCalls, events, watcher, idx, watched, scan, parse, ctorVars, indexed, flight, cacheVars>>

\* FileWatcher.stop(): observer.stop() and join(); events not yet dispatched
\* are dropped
WatchStop ==
    /\ watcher \in {"watching", "crashed"}
    /\ watcher' = "stopped"
    /\ watched' = {}
    /\ events' = <<>>
    /\ last' = [NoOp EXCEPT !.op = "stop"]
    /\ UNCHANGED <<files, store, embedCalls, idx, scan, parse, ctorVars, indexed, flight, cacheVars>>

\* the handler drops the event: no callback
OnIgnored ==
    /\ watcher = "watching"
    /\ events # <<>>
    /\ on_event(Head(events)) = <<>>
    /\ last' = [NoOp EXCEPT !.op = "ignored", !.via = "watch", !.path = Head(events).path]
    /\ events' = Tail(events)
    /\ UNCHANGED <<files, store, embedCalls, watcher, idx, watched, scan, parse, ctorVars, indexed, flight, cacheVars>>

\* _on_change("deleted", path): store.delete_by_source(str(path))
OnDeleted ==
    /\ watcher = "watching"
    /\ events # <<>>
    /\ on_event(Head(events)) # <<>>
    /\ LET call == on_event(Head(events))[1]
       IN  /\ call.event_type = "deleted"
           /\ store' = delete_by_source(store, call.file_path)
           /\ last' = [NoOp EXCEPT !.op = "deleted", !.via = "watch",
                                   !.path = call.file_path,
                                   !.before = SourceCount(store, call.file_path),
                                   !.replay = Replayed("deleted", "watch", call.file_path)]
    /\ events' = Tail(events)
    /\ UNCHANGED <<files, embedCalls, watcher, idx, watched, scan, parse, ctorVars, indexed, flight, cacheVars>>

\* _on_change("created" | "modified", path): asyncio.run(self.index_file(path))
OnChanged ==
    /\ watcher = "watching"
    /\ events # <<>>
    /\ on_event(Head(events)) # <<>>
    /\ LET call == on_event(Head(events))[1]
       IN  /\ call.event_type # "deleted"
           /\ Pass(call.file_path, FALSE, "watch")
    /\ events' = Tail(events)
    /\ UNCHANGED <<files, watcher, idx, watched, scan, parse, ctorVars, flight, cacheVars>>

\* the file is gone when the event is dispatched: index_file raises inside the
\* handler and the exception ends the observer thread's run()
OnChangedMissing ==
    /\ watcher = "watching"
    /\ events # <<>>
    /\ on_event(Head(events)) # <<>>
    /\ LET call == on_event(Head(events))[1]
       IN  /\ call.event_type # "deleted"
           /\ files[call.file_path] = NoFile
           /\ Raised(call.file_path, "watch")
    /\ watcher' = "crashed"
    /\ events' = Tail(events)
    /\ UNCHANGED <<files, store, embedCalls, idx, watched, scan, parse, ctorVars, indexed, flight, cacheVars>>

-----------------------------------------------------------------------------
(* The callback step by step, and stop() *)

\* the observer thread takes the next event and enters _on_change
CallbackEnter ==
    /\ watcher = "watching"
    /\ flight.stage = "idle"
    /\ events # <<>>
    /\ on_event(Head(events)) # <<>>
    /\ LET call == on_event(Head(events))[1]
       IN  /\ flight' = [NoFlight EXCEPT !.stage = "called",
                                         !.event_type = call.event_type,
                                         !.file_path = call.file_path]
           /\ last' = [NoOp EXCEPT !.op = "enter", !.via = "watch",
                                   !.path = call.file_path,
                                   !.event_type = call.event_type]
    /\ events' = Tail(events)
    /\ UNCHANGED <<files, store, embedCalls, watcher, idx, watched, scan, parse, ctorVars, indexed, cacheVars>>

\* event_type == "deleted": store.delete_by_source(str(file_path))
CallbackDelete ==
    /\ flight.stage = "called"
    /\ flight.event_type = "deleted"
    /\ store' = delete_by_source(store, flight.file_path)
    /\ flight' = [flight EXCEPT !.stage = "stored"]
    /\ last' = [NoOp EXCEPT !.op = "removed", !.via = "watch", !.path = flight.file_path,
                            !.event_type = flight.event_type,
                            !.before = SourceCount(store, flight.file_path)]
    /\ UNCHANGED <<files, embedCalls, events, watcher, idx, watched, scan, parse, ctorVars, indexed, cacheVars>>

\* index_file up to the upsert: the file is read and chunked, the chunks the
\* store lacks are embedded and the records built; with nothing to write
\* index_file returns 0
CallbackIndex ==
    /\ flight.stage = "called"
    /\ flight.event_type # "deleted"
    /\ files[flight.file_path] # NoFile
    /\ LET chunks == ChunksToWrite(store, chunk_markdown(files[flight.file_path],
                                                         flight.file_path), FALSE)
           res    == embed_and_store(store, chunks, "markdown")
       IN  /\ flight' = [flight EXCEPT !.stage = IF chunks = <<>> THEN "stored" ELSE "embedded",
                                       !.records = res.written]
           /\ embedCalls' = CountEmbeds(embedCalls, res.embedded)
           /\ last' = [NoOp EXCEPT !.op = "embedded", !.via = "watch",
                                   !.path = flight.file_path,
                                   !.event_type = flight.event_type,
                                   !.embedded = res.embedded,
                                   !.batches = Batches(res.embedded)]
    /\ indexed' = indexed \cup {flight.file_path}
    /\ UNCHANGED <<files, store, events, watcher, idx, watched, scan, parse, ctorVars, cacheVars>>

\* index_file on a file that is gone: the exception leaves _on_change and
\* ends the observer thread
CallbackIndexMissing ==
    /\ flight.stage = "called"
    /\ flight.event_type # "deleted"
    /\ files[flight.file_path] = NoFile
    /\ flight' = NoFlight
    /\ watcher' = IF watcher = "watching" THEN "crashed" ELSE watcher
    /\ last' = [NoOp EXCEPT !.op = "raised", !.via = "watch", !.path = flight.file_path,
                            !.event_type = flight.event_type]
    /\ UNCHANGED <<files, store, embedCalls, events, idx, watched, scan, parse, ctorVars, indexed, cacheVars>>

\* upsert, first half: delete_by_hashes(hashes)
UpsertDelete ==
    /\ flight.stage = "embedded"
    /\ store' = delete_by_hashes(store, [i \in DOMAIN flight.records |->
                                            flight.records[i].chunk_hash])
    /\ flight' = [flight EXCEPT !.stage = "deleted"]
    /\ last' = [NoOp EXCEPT !.op = "hashes_deleted", !.via = "watch",
                            !.path = flight.file_path, !.event_type = flight.event_type]
    /\ UNCHANGED <<files, embedCalls, events, watcher, idx, watched, scan, parse, ctorVars, indexed, cacheVars>>

\* upsert, second half: client.insert(data=chunks)
UpsertInsert ==
    /\ flight.stage = "deleted"
    /\ store' = store (+) BagOfSeq(flight.records)
    /\ flight' = [flight EXCEPT !.stage = "stored"]
    /\ last' = [NoOp EXCEPT !.op = "inserted", !.via = "watch",
                            !.path = flight.file_path, !.event_type = flight.event_type,
                            !.written = flight.records, !.ret = Len(flight.records)]
    /\ UNCHANGED <<files, embedCalls, events, watcher, idx, watched, scan, parse, ctorVars, indexed, cacheVars>>

\* on_event(event_type, summary, file_path), then _on_change returns
CallbackNotify ==
    /\ flight.stage = "stored"
    /\ flight' = NoFlight
    /\ last' = [NoOp EXCEPT !.op = "on_event", !.via = "watch",
                            !.path = flight.file_path, !.event_type = flight.event_type]
    /\ UNCHANGED <<files, store, embedCalls, events, watcher, idx, watched, scan, parse, ctorVars, indexed, cacheVars>>

\* FileWatcher.stop(), first statement: observer.stop() asks the thread to end
StopRequest ==
    /\ watcher = "watching"
    /\ watcher' = "stopping"
    /\ last' = [NoOp EXCEPT !.op = "stop_called"]
    /\ UNCHANGED <<files, store, embedCalls, events, idx, watched, scan, parse, ctorVars, indexed, flight, cacheVars>>

\* a join that returns at once and takes the running callback with it
StopJoin_abort ==
    /\ watcher = "stopping"
    /\ watcher' = "stopped"
    /\ watched' = {}
    /\ events' = <<>>
    /\ flight' = NoFlight
    /\ last' = [NoOp EXCEPT !.op = "stop"]
    /\ UNCHANGED <<files, store, embedCalls, idx, scan, parse, ctorVars, indexed, cacheVars>>

\* FileWatcher.stop(), second statement: observer.join() returns once the
\* thread has left the callback it was in; events still queued are dropped
StopJoin ==
    /\ watcher = "stopping"
    /\ flight.stage = "idle"
    /\ watcher' = "stopped"
    /\ watched' = {}
    /\ events' = <<>>
    /\ last' = [NoOp EXCEPT !.op = "stop"]
    /\ UNCHANGED <<files, store, embedCalls, idx, scan, parse, ctorVars, indexed, flight, cacheVars>>

-----------------------------------------------------------------------------
(* Scanner *)

\* no scan_paths call to make
NoScan == [roots |-> <<>>, tree |-> {}, order |-> <<>>, results |-> <<>>,
           done |-> TRUE]

\* the scanned directory and what it may hold: two markdown files, a text
\* file and link.md, a symbolic link to a.md
ScanDir == "/docs"
Entries == {"/docs/a.md", "/docs/b.md", "/docs/c.txt", "/docs/link.md"}

\* the directory contents scan_paths may meet (the link's target exists)
Trees == {t \in SUBSET Entries : "/docs/link.md" \in t => "/docs/a.md" \in t}

\* entries of the paths argument: the directory, its files, a.md spelled
\* with a dot segment, and a path that does not exist
RootNames == {"/docs", "/docs/a.md", "/docs/b.md", "/docs/link.md",
              "/docs/./a.md", "/nowhere.md"}

\* Path.resolve(): dot segments removed, symbolic links followed
resolve(p) ==
    IF p \in {"/docs/link.md", "/docs/./a.md"} THEN "/docs/a.md" ELSE p

\* the orders in which os.walk may list the entries of a directory
WalkOrders(tree) ==
    {o \in [1..Cardinality(tree) -> tree] : \A i, j \in DOMAIN o : i # j => o[i] # o[j]}

\* _maybe_add(fp, extensions, seen, results); acc holds seen and results
maybe_add(fp, acc) ==
    IF lower(suffix(fp)) \notin extensions THEN acc
    ELSE IF resolve(fp) \in acc.seen THEN acc
    ELSE [seen |-> acc.seen \cup {resolve(fp)},
          results |-> Append(acc.results, fp)]

\* the directories: /docs, its sub-directories sub and .git, and .git/deep
Dirs == {"/docs", "/docs/sub", "/docs/.git", "/docs/.git/deep"}

\* the directory a file or directory lies in
Dir(p) ==
    IF p = "/docs/.git/deep/d.md" THEN "/docs/.git/deep"
    ELSE IF p \in {"/docs/.git/h.md", "/docs/.git/deep"} THEN "/docs/.git"
    ELSE IF p = "/docs/sub/s.md" THEN "/docs/sub"
    ELSE IF p \in {"/docs", "/nowhere.md"} THEN "/"
    ELSE "/docs"

\* name.startswith(".") for the last component of a path
startswith_dot(p) == p \in {"/docs/.x.md", "/docs/.git"}

\* for fname in filenames: _maybe_add(Path(dirpath) / fname, ...)
RECURSIVE add_files(_, _)
add_files(filenames, acc) ==
    IF filenames = <<>> THEN acc
    ELSE add_files(Tail(filenames), maybe_add(Head(filenames), acc))

\* the loop over os.walk(root) with ignore_hidden: the files of dirpath that
\* are not hidden, in listing order, then the sub-directories left in
\* dirnames (a directory here has at most one that is not hidden)
RECURSIVE walk(_, _, _)
walk(dirpath, order, acc) ==
    LET listed(f) == Dir(f) = dirpath /\ ~startswith_dot(f)
        filenames == SelectSeq(order, listed)
        dirnames == {d \in Dirs : Dir(d) = dirpath /\ ~startswith_dot(d)}
        here == add_files(filenames, acc)
    IN  IF dirnames = {} THEN here
        ELSE walk(CHOOSE d \in dirnames : TRUE, order, here)

\* the loop over paths: each root is resolved, a file is added, a directory
\* is walked, anything else is skipped
RECURSIVE scan_roots(_, _, _, _)
scan_roots(paths, tree, order, acc) ==
    IF paths = <<>> THEN acc
    ELSE LET root == resolve(Head(paths))
             next == IF root \in tree THEN maybe_add(root, acc)
                     ELSE IF root \in Dirs THEN walk(root, order, acc)
                     ELSE acc
         IN scan_roots(Tail(paths), tree, order, next)

\* results.sort(key=lambda f: f.path)
RECURSIVE sort_by_path(_)
sort_by_path(results) ==
    IF results = <<>> THEN <<>>
    ELSE LET least == CHOOSE i \in DOMAIN results :
                          \A j \in DOMAIN results :
                              \/ PathRank(results[i]) < PathRank(results[j])
                              \/ PathRank(results[i]) = PathRank(results[j]) /\ i <= j
             rest == [k \in 1..(Len(results) - 1) |->
                          IF k < least THEN results[k] ELSE results[k + 1]]
         IN <<results[least]>> \o sort_by_path(rest)

\* a directory with hidden entries: markdown files, a text file, the hidden
\* file .x.md, the hidden directory .git with a file and a sub-directory, and
\* the sub-directory sub
HiddenEntries == {"/docs/a.md", "/docs/N.Markdown", "/docs/c.txt", "/docs/.x.md",
                  "/docs/.git/h.md", "/docs/.git/deep/d.md", "/docs/sub/s.md"}
HiddenRootNames == {"/docs", "/docs/sub", "/docs/.git", "/docs/.x.md", "/docs/a.md"}

\* two directory listings: ascending and descending by name
RECURSIVE Ascending(_)
Ascending(tree) ==
    IF tree = {} THEN <<>>
    ELSE LET first == CHOOSE f \in tree : \A g \in tree : PathRank(f) <= PathRank(g)
         IN <<first>> \o Ascending(tree \ {first})
Descending(tree) ==
    [i \in 1..Cardinality(tree) |-> Ascending(tree)[Cardinality(tree) + 1 - i]]

\* scan_paths(paths) over a directory tree that os.walk lists in some order
scan_paths_in(paths, tree, order) ==
    sort_by_path(scan_roots(paths, tree, order, [seen |-> {}, results |-> <<>>]).results)

\* the call scan_paths(paths) returns
ScanPaths ==
    /\ ~scan.done
    /\ scan' = [scan EXCEPT !.results = scan_paths_in(scan.roots, scan.tree, scan.order),
                            !.done = TRUE]
    /\ UNCHANGED <<files, store, embedCalls, events, watcher, watched, parse, ctorVars, indexed, flight, idx, last, cacheVars>>

-----------------------------------------------------------------------------
(* MemSearch construction *)

\* milvus_uri values
Uris == {"a.db", "b.db"}

\* embedding_model values of the openai provider
EmbeddingModels == {"text-embedding-3-small", "text-embedding-3-large",
                    "text-embedding-ada-002", "other"}

\* _default_dimension(model)
default_dimension(model) ==
    IF model = "text-embedding-3-large" THEN 3072 ELSE 1536

NoCollection == 0

\* MilvusStore._ensure_collection: an existing collection is kept as it is,
\* a missing one is created with the dimension given
ensure_collection(colls, uri, dimension) ==
    IF colls[uri] # NoCollection THEN colls
    ELSE [colls EXCEPT ![uri] = dimension]

\* MemSearch(embedding_model=model, milvus_uri=uri)
Construct(uri, model) ==
    /\ Len(instances) < MaxInstances
    /\ collections' = ensure_collection(collections, uri, default_dimension(model))
    /\ instances' = Append(instances, [uri |-> uri, model |-> model,
                                       dimension |-> default_dimension(model),
                                       open |-> TRUE])
    /\ UNCHANGED <<files, store, embedCalls, events, watcher, watched, scan, parse, idx, last, indexed, flight, cacheVars>>

\* MemSearch.close()
Close(i) ==
    /\ i \in DOMAIN instances
    /\ instances[i].open
    /\ instances' = [instances EXCEPT ![i].open = FALSE]
    /\ UNCHANGED <<files, store, embedCalls, events, watcher, watched, scan, parse, collections, idx, last, indexed, flight, cacheVars>>

-----------------------------------------------------------------------------
(* Session log parser *)

Absent == "<absent>"

\* the lines a session log may hold
LogLines == {"", "   ", "{bad", "[1]", "user_s1", "assistant_s1", "user_s2",
             "user_anon", "summary_s1", "blank_s2", "image_s2", "bare_s1",
             "message_str"}

\* str.strip() of a line
strip(line) == IF line = "   " THEN "" ELSE line

\* a content block of a message
TextBlock(text) == [t |-> "dict", type |-> "text", text |-> text]
OtherBlock(type) == [t |-> "dict", type |-> type, text |-> Absent]
StrBlock(str) == [t |-> "str", type |-> Absent, text |-> str]

\* a JSON object with the keys the parser reads
Obj(type, sessionId, message) ==
    [t |-> "dict", type |-> type, sessionId |-> sessionId, message |-> message]
Msg(role, content) == [t |-> "dict", role |-> role, content |-> content]
Str(str) == [t |-> "str", v |-> str]
List(blocks) == [t |-> "list", v |-> blocks]

\* json.loads(line): the value a line holds, or JSONDecodeError
json_loads(line) ==
    IF line = "{bad" THEN [t |-> "JSONDecodeError"]
    ELSE IF line = "[1]" THEN [t |-> "list"]
    ELSE IF line = "user_s1" THEN Obj("user", "s1", Msg("user", Str("hi")))
    ELSE IF line = "assistant_s1"
        THEN Obj("assistant", "s1",
                 Msg("assistant", List(<<TextBlock("T1"), OtherBlock("tool_use"), TextBlock("T2")>>)))
    ELSE IF line = "user_s2" THEN Obj("user", "s2", Msg(Absent, Str("yo")))
    ELSE IF line = "user_anon" THEN Obj("user", Absent, Msg("user", Str("anon")))
    ELSE IF line = "summary_s1" THEN Obj("summary", "s1", Msg("user", Str("sum")))
    ELSE IF line = "blank_s2" THEN Obj("user", "s2", Msg("user", Str("  ")))
    ELSE IF line = "image_s2" THEN Obj("user", "s2", Msg("user", List(<<OtherBlock("image")>>)))
    ELSE IF line = "bare_s1"
        THEN Obj("user", "s1", Msg("user", List(<<StrBlock("bare"), TextBlock("T1")>>)))
    ELSE Obj("user", "s1", Str("hello"))

SessionIds == {"s1", "s2", "unknown"}

\* the text_parts loop over a list of content blocks
RECURSIVE text_parts(_)
text_parts(blocks) ==
    IF blocks = <<>> THEN <<>>
    ELSE LET block == Head(blocks)
         IN  IF block.t = "dict" /\ block.type = "text"
                 THEN <<IF block.text = Absent THEN "" ELSE block.text>> \o text_parts(Tail(blocks))
             ELSE IF block.t = "str" THEN <<block.text>> \o text_parts(Tail(blocks))
             ELSE text_parts(Tail(blocks))

\* the loop that takes the text-typed blocks only
RECURSIVE text_parts_typed(_)
text_parts_typed(blocks) ==
    IF blocks = <<>> THEN <<>>
    ELSE LET block == Head(blocks)
         IN  IF block.t = "dict" /\ block.type = "text"
                 THEN <<IF block.text = Absent THEN "" ELSE block.text>> \o text_parts_typed(Tail(blocks))
             ELSE text_parts_typed(Tail(blocks))

\* the content of a message: the parts that "\n".join puts together, or the
\* one string str(content_raw)
content_of(content_raw) ==
    IF content_raw.t = "list" THEN text_parts(content_raw.v) ELSE <<content_raw.v>>

\* not content.strip()
is_blank(content) == \A i \in DOMAIN content : content[i] \in {"", "  "}

NoSessions == [order |-> <<>>, by |-> [sid \in SessionIds |-> <<>>], raised |-> FALSE]

\* the body of the loop over the lines; acc holds session_ids_order and
\* messages_by_session, and raised once an exception has left the function
parse_line(line, acc) ==
    IF acc.raised \/ strip(line) = "" THEN acc
    ELSE LET obj == json_loads(strip(line))
         IN  IF obj.t = "JSONDecodeError" THEN acc
             ELSE IF obj.t # "dict" THEN [acc EXCEPT !.raised = TRUE]
             ELSE IF obj.type \notin {"user", "assistant"} THEN acc
             ELSE IF obj.message.t # "dict" THEN [acc EXCEPT !.raised = TRUE]
             ELSE LET session_id == IF obj.sessionId = Absent THEN "unknown" ELSE obj.sessionId
                      role == IF obj.message.role = Absent THEN obj.type ELSE obj.message.role
                      content == content_of(obj.message.content)
                  IN  IF is_blank(content) THEN acc
                      ELSE [order |-> IF acc.by[session_id] = <<>>
                                          THEN Append(acc.order, session_id) ELSE acc.order,
                            by |-> [acc.by EXCEPT ![session_id] =
                                        Append(@, [role |-> role, content |-> content])],
                            raised |-> FALSE]

RECURSIVE parse_lines(_, _)
parse_lines(lines, acc) ==
    IF lines = <<>> THEN acc
    ELSE parse_lines(Tail(lines), parse_line(Head(lines), acc))

\* parse_session_file(path): the sessions returned, or raised
parse_session_file(exists, lines) ==
    IF ~exists THEN [sessions |-> <<>>, raised |-> FALSE]
    ELSE LET acc == parse_lines(lines, NoSessions)
         IN  IF acc.raised THEN [sessions |-> <<>>, raised |-> TRUE]
             ELSE [sessions |-> [i \in DOMAIN acc.order |->
                                    [session_id |-> acc.order[i],
                                     messages |-> acc.by[acc.order[i]]]],
                   raised |-> FALSE]

\* no parse_session_file call to make
NoParse == [exists |-> FALSE, lines |-> <<>>, sessions |-> <<>>, raised |-> FALSE,
            done |-> TRUE]

\* the call parse_session_file(path) returns or raises
ParseSessionFile ==
    /\ ~parse.done
    /\ LET ret == parse_session_file(parse.exists, parse.lines)
       IN  parse' = [parse EXCEPT !.sessions = ret.sessions, !.raised = ret.raised,
                                  !.done = TRUE]
    /\ UNCHANGED <<files, store, embedCalls, events, watcher, watched, scan, ctorVars, indexed, flight, idx, last, cacheVars>>

-----------------------------------------------------------------------------
(* EmbeddingCache *)

CacheHashes == {"h1", "h2"}
Models == {"", "m1"}
Embeddings == {<<"1.0">>, <<"9.0">>}
NoRow == <<"norow">>
None == <<"None">>      \* a vector that is None
NoModel == "<None>"     \* the model argument left out (model=None)
NoHash == "<None>"

Keys == CacheHashes \X Models

SeqsUpTo(S, n) == UNION {[1..k -> S] : k \in 0..n}

\* json.dumps / json.loads of a list of numbers
dumps(embedding) == <<"json", embedding>>
loads(text) == text[2]

\* SELECT embedding ... WHERE content_hash = ? AND model = ?
get(c, content_hash, model) ==
    LET row == c[<<content_hash, model>>]
    IN  IF row = NoRow THEN None ELSE loads(row)

\* only the rows found, no entry for a hash without a row
get_batch_found(c, hashes, model) ==
    LET rows == {h \in CacheHashes : h \in Range(hashes) /\ c[<<h, model>>] # NoRow}
    IN  [h \in rows |-> loads(c[<<h, model>>])]

\* SELECT ... WHERE model = ? AND content_hash IN (...), then one entry per
\* requested hash
get_batch(c, hashes, model) ==
    IF hashes = <<>> THEN <<>>
    ELSE LET rows  == {h \in CacheHashes : h \in Range(hashes) /\ c[<<h, model>>] # NoRow}
             found == [h \in rows |-> loads(c[<<h, model>>])]
         IN  [h \in Range(hashes) |-> IF h \in DOMAIN found THEN found[h] ELSE None]

\* INSERT OR IGNORE: an existing row is kept
put_or_ignore(c, content_hash, model, embedding) ==
    IF c[<<content_hash, model>>] # NoRow THEN c
    ELSE [c EXCEPT ![<<content_hash, model>>] = dumps(embedding)]

\* a primary key of content_hash alone: the row replaces the hash's rows of every model
put_hash_key(c, content_hash, model, embedding) ==
    [k \in Keys |-> IF k = <<content_hash, model>> THEN dumps(embedding)
                    ELSE IF k[1] = content_hash THEN NoRow ELSE c[k]]

\* INSERT OR REPLACE INTO embeddings (content_hash, model, embedding)
put(c, content_hash, model, embedding) ==
    [c EXCEPT ![<<content_hash, model>>] = dumps(embedding)]

\* executemany of the same statement over the items, in order
RECURSIVE put_batch(_, _)
put_batch(c, items) ==
    IF items = <<>> THEN c
    ELSE put_batch(put(c, Head(items)[1], Head(items)[2], Head(items)[3]), Tail(items))

\* DELETE ... WHERE model = ? when model is truthy, else DELETE everything;
\* returns cursor.rowcount
clear(c, model) ==
    LET gone == IF model # NoModel /\ model # ""
                THEN {k \in Keys : k[2] = model /\ c[k] # NoRow}
                ELSE {k \in Keys : c[k] # NoRow}
    IN  [cache |-> [k \in Keys |-> IF k \in gone THEN NoRow ELSE c[k]],
         ret   |-> Cardinality(gone)]

NoCall ==
    [op |-> "none", hash |-> NoHash, model |-> NoModel, hashes |-> <<>>, items |-> <<>>,
     ret |-> None]

\* the most recent write per key, as the caller issued them
RECURSIVE Record(_, _)
Record(l, items) ==
    IF items = <<>> THEN l
    ELSE Record([l EXCEPT ![<<Head(items)[1], Head(items)[2]>>] = Head(items)[3]],
                Tail(items))

CacheGet(h, m) ==
    /\ cop' = [NoCall EXCEPT !.op = "get", !.hash = h, !.model = m,
                             !.ret = get(cache, h, m)]
    /\ UNCHANGED <<cache, disk, cleared, latest, pipeVars>>

CacheGetBatch(hashes, m) ==
    /\ cop' = [NoCall EXCEPT !.op = "get_batch", !.hashes = hashes, !.model = m,
                             !.ret = get_batch(cache, hashes, m)]
    /\ UNCHANGED <<cache, disk, cleared, latest, pipeVars>>

CachePut(h, m, e) ==
    /\ cache' = put(cache, h, m, e)
    /\ disk' = cache'
    /\ latest' = Record(latest, <<<<h, m, e>>>>)
    /\ cop' = [NoCall EXCEPT !.op = "put", !.hash = h, !.model = m, !.items = <<<<h, m, e>>>>]
    /\ UNCHANGED <<cleared, pipeVars>>

CachePutBatch(items) ==
    /\ cache' = put_batch(cache, items)
    /\ disk' = cache'
    /\ latest' = Record(latest, items)
    /\ cop' = [NoCall EXCEPT !.op = "put_batch", !.items = items]
    /\ UNCHANGED <<cleared, pipeVars>>

\* clear(model=m); m = NoModel is clear()
CacheClear(m) ==
    /\ cache' = clear(cache, m).cache
    /\ disk' = cache'
    /\ cleared' = TRUE
    /\ latest' = [k \in Keys |-> IF m = NoModel \/ k[2] = m THEN None ELSE latest[k]]
    /\ cop' = [NoCall EXCEPT !.op = "clear", !.model = m, !.ret = clear(cache, m).ret]
    /\ UNCHANGED pipeVars

\* put_batch whose last item has content_hash None: executemany runs the
\* statements before it inside the connection's open transaction, the NOT NULL
\* constraint then raises IntegrityError and put_batch ends before commit()
CachePutBatchRaises(done, m, e) ==
    /\ cache' = put_batch(cache, done)
    /\ latest' = Record(latest, done)
    /\ cop' = [NoCall EXCEPT !.op = "put_batch_raised",
                             !.items = Append(done, <<NoHash, m, e>>)]
    /\ UNCHANGED <<disk, cleared, pipeVars>>

\* the process stops, or the cache is closed, and the database is opened
\* again: an uncommitted transaction is rolled back
CacheReopen ==
    /\ cache' = disk
    /\ latest' = [k \in Keys |-> get(disk, k[1], k[2])]
    /\ cop' = [NoCall EXCEPT !.op = "reopen"]
    /\ UNCHANGED <<disk, cleared, pipeVars>>

-----------------------------------------------------------------------------
Init ==
    /\ files = [p \in Files |-> NoFile]
    /\ store = EmptyBag
    /\ embedCalls = [t \in Texts |-> "never"]
    /\ events = <<>>
    /\ watcher = "watching"
    /\ watched = {r \in Roots : is_dir(r)}
    /\ scan = NoScan
    /\ parse = NoParse
    /\ collections = [uri \in Uris |-> NoCollection]
    /\ instances = <<>>
    /\ indexed = {}
    /\ flight = NoFlight
    /\ idx = IdleIdx
    /\ last = NoOp
    /\ cache = [k \in Keys |-> NoRow]
    /\ disk = [k \in Keys |-> NoRow]
    /\ cleared = FALSE
    /\ latest = [k \in Keys |-> None]
    /\ cop = NoCall

Next ==
    \/ \E p \in Paths : IndexFile(p)
    \/ \E p \in Paths : IndexFileMissing(p)
    \/ \E force \in BOOLEAN : IndexStart(force)
    \/ \E force \in BOOLEAN : IndexNothing(force)
    \/ IndexStep
    \/ IndexStepMissing
    \/ \E p \in Paths, text \in Contents : FsWrite(p, text)
    \/ \E p \in Paths : FsDelete(p)
    \/ OnDeleted
    \/ OnChanged
    \/ OnChangedMissing

Spec == Init /\ [][Next]_vars

\* the MemSearch object before watch() is called, or a FileWatcher before
\* start()
InitIdle ==
    /\ files = [p \in Files |-> NoFile]
    /\ store = EmptyBag
    /\ embedCalls = [t \in Texts |-> "never"]
    /\ events = <<>>
    /\ watcher = "idle"
    /\ watched = {}
    /\ scan = NoScan
    /\ parse = NoParse
    /\ collections = [uri \in Uris |-> NoCollection]
    /\ instances = <<>>
    /\ indexed = {}
    /\ flight = NoFlight
    /\ idx = IdleIdx
    /\ last = NoOp
    /\ cache = [k \in Keys |-> NoRow]
    /\ disk = [k \in Keys |-> NoRow]
    /\ cleared = FALSE
    /\ latest = [k \in Keys |-> None]
    /\ cop = NoCall

\* indexing with files that vanish and an embedding backend that can fail
NextFaults ==
    \/ \E p \in Paths, text \in Contents : FsWrite(p, text)
    \/ \E p \in Paths : FsDelete(p)
    \/ \E p \in Paths : IndexFile(p)
    \/ \E p \in Paths : IndexFileMissing(p)
    \/ \E p \in Paths : IndexFileEmbedFails(p)
    \/ \E force \in BOOLEAN : IndexStart(force)
    \/ \E force \in BOOLEAN : IndexStartEmbedFails(force)
    \/ \E force \in BOOLEAN : IndexNothing(force)
    \/ IndexStep
    \/ IndexStepMissing
    \/ IndexStepEmbedFails
    \/ \E log \in Logs : IndexSession(log)
    \/ \E log \in Logs : \E k \in DOMAIN log : IndexSessionEmbedFails(log, k)

SpecFaults == InitIdle /\ [][NextFaults]_vars

\* indexing and flushing
NextFlush ==
    \/ \E p \in Paths, text \in Contents : FsWrite(p, text)
    \/ \E p \in Paths : FsDelete(p)
    \/ \E p \in Paths : IndexFile(p)
    \/ \E force \in BOOLEAN : IndexStart(force)
    \/ IndexStep
    \/ \E log \in Logs : IndexSession(log)
    \/ \E source \in Paths \cup {LogPath, NoSource}, summary \in Summaries :
          Flush(source, summary)

SpecFlush == InitIdle /\ [][NextFlush]_vars

\* the FileWatcher from construction to stop(), with every kind of
\* notification
WatchFiles == {"a.md", "N.Markdown"}
WatchContents == {<<"t1", "t2">>, <<"t1", "t1">>}

NextWatch ==
    \/ WatchStart
    \/ WatchStartAgain
    \/ WatchStop
    \/ \E p \in WatchFiles, text \in WatchContents : FsWrite(p, text)
    \/ \E p \in WatchFiles : FsDelete(p)
    \/ \E kind \in Kinds, p \in OtherPaths : FsOther(kind, p)
    \/ FsRepeat
    \/ OnIgnored
    \/ OnDeleted
    \/ OnChanged
    \/ OnChangedMissing

SpecWatch == InitIdle /\ [][NextWatch]_vars

\* the watcher over markdown files that are written, renamed and removed
NextMove ==
    \/ WatchStart
    \/ \E p \in Paths, text \in WatchContents : FsWrite(p, text)
    \/ \E p \in Paths : FsDelete(p)
    \/ \E p, q \in Paths : FsMove(p, q)
    \/ OnIgnored
    \/ OnDeleted
    \/ OnChanged
    \/ OnChangedMissing

SpecMove == InitIdle /\ [][NextMove]_vars

\* a scan_paths call about to run: its paths argument, the directory
\* contents and the order in which os.walk lists them
InitScan ==
    /\ files = [p \in Files |-> NoFile]
    /\ store = EmptyBag
    /\ embedCalls = [t \in Texts |-> "never"]
    /\ events = <<>>
    /\ watcher = "idle"
    /\ watched = {}
    /\ \E paths \in SeqsUpTo(RootNames, MaxRoots), tree \in Trees :
           \E order \in WalkOrders(tree) :
               scan = [roots |-> paths, tree |-> tree, order |-> order,
                       results |-> <<>>, done |-> FALSE]
    /\ parse = NoParse
    /\ collections = [uri \in Uris |-> NoCollection]
    /\ instances = <<>>
    /\ indexed = {}
    /\ flight = NoFlight
    /\ idx = IdleIdx
    /\ last = NoOp
    /\ cache = [k \in Keys |-> NoRow]
    /\ disk = [k \in Keys |-> NoRow]
    /\ cleared = FALSE
    /\ latest = [k \in Keys |-> None]
    /\ cop = NoCall

\* a scan_paths call over the directory with hidden entries
InitScanHidden ==
    /\ files = [p \in Files |-> NoFile]
    /\ store = EmptyBag
    /\ embedCalls = [t \in Texts |-> "never"]
    /\ events = <<>>
    /\ watcher = "idle"
    /\ watched = {}
    /\ \E paths \in SeqsUpTo(HiddenRootNames, MaxRoots), tree \in SUBSET HiddenEntries :
           \E order \in {Ascending(tree), Descending(tree)} :
               scan = [roots |-> paths, tree |-> tree, order |-> order,
                       results |-> <<>>, done |-> FALSE]
    /\ parse = NoParse
    /\ collections = [uri \in Uris |-> NoCollection]
    /\ instances = <<>>
    /\ indexed = {}
    /\ flight = NoFlight
    /\ idx = IdleIdx
    /\ last = NoOp
    /\ cache = [k \in Keys |-> NoRow]
    /\ disk = [k \in Keys |-> NoRow]
    /\ cleared = FALSE
    /\ latest = [k \in Keys |-> None]
    /\ cop = NoCall

NextScan == ScanPaths

SpecScan == InitScan /\ [][NextScan]_vars

SpecScanHidden == InitScanHidden /\ [][NextScan]_vars

\* the watched directory docs with a markdown file, a text file, the hidden
\* file .x.md, a file in the hidden directory .git and one in the directory sub
TreeFiles == {"/docs/a.md", "/docs/c.txt", "/docs/.x.md", "/docs/.git/h.md",
              "/docs/sub/s.md"}
TreeContents == {<<"t1", "t2">>}

\* a FileWatcher before start(), over that directory
InitTree ==
    /\ files = [p \in TreeFiles |-> NoFile]
    /\ store = EmptyBag
    /\ embedCalls = [t \in Texts |-> "never"]
    /\ events = <<>>
    /\ watcher = "idle"
    /\ watched = {}
    /\ scan = NoScan
    /\ parse = NoParse
    /\ collections = [uri \in Uris |-> NoCollection]
    /\ instances = <<>>
    /\ indexed = {}
    /\ flight = NoFlight
    /\ idx = IdleIdx
    /\ last = NoOp
    /\ cache = [k \in Keys |-> NoRow]
    /\ disk = [k \in Keys |-> NoRow]
    /\ cleared = FALSE
    /\ latest = [k \in Keys |-> None]
    /\ cop = NoCall

\* the watcher over the directory with hidden entries
NextTree ==
    \/ WatchStart
    \/ \E p \in TreeFiles, text \in TreeContents : FsWrite(p, text)
    \/ \E p \in TreeFiles : FsDelete(p)
    \/ OnIgnored
    \/ OnDeleted
    \/ OnChanged
    \/ OnChangedMissing

SpecTree == InitTree /\ [][NextTree]_vars

\* a parse_session_file call about to run: the file and its lines
InitParse ==
    /\ files = [p \in Files |-> NoFile]
    /\ store = EmptyBag
    /\ embedCalls = [t \in Texts |-> "never"]
    /\ events = <<>>
    /\ watcher = "idle"
    /\ watched = {}
    /\ scan = NoScan
    /\ \E exists \in BOOLEAN, lines \in SeqsUpTo(LogLines, MaxLines) :
           /\ ~exists => lines = <<>>
           /\ parse = [exists |-> exists, lines |-> lines, sessions |-> <<>>,
                       raised |-> FALSE, done |-> FALSE]
    /\ collections = [uri \in Uris |-> NoCollection]
    /\ instances = <<>>
    /\ indexed = {}
    /\ flight = NoFlight
    /\ idx = IdleIdx
    /\ last = NoOp
    /\ cache = [k \in Keys |-> NoRow]
    /\ disk = [k \in Keys |-> NoRow]
    /\ cleared = FALSE
    /\ latest = [k \in Keys |-> None]
    /\ cop = NoCall

NextParse == ParseSessionFile

SpecParse == InitParse /\ [][NextParse]_vars

NextConstruct ==
    \/ \E uri \in Uris, model \in EmbeddingModels : Construct(uri, model)
    \/ \E i \in 1..MaxInstances : Close(i)

SpecConstruct == InitIdle /\ [][NextConstruct]_vars

NextFlight ==
    \/ WatchStart
    \/ \E p \in Paths, text \in Contents : FsWrite(p, text)
    \/ \E p \in Paths : FsDelete(p)
    \/ CallbackEnter
    \/ CallbackDelete
    \/ CallbackIndex
    \/ CallbackIndexMissing
    \/ UpsertDelete
    \/ UpsertInsert
    \/ CallbackNotify
    \/ StopRequest
    \/ StopJoin

SpecFlight == InitIdle /\ [][NextFlight]_vars

NextCache ==
    \/ \E h \in CacheHashes, m \in Models : CacheGet(h, m)
    \/ \E hashes \in SeqsUpTo(CacheHashes, MaxBatch), m \in Models : CacheGetBatch(hashes, m)
    \/ \E h \in CacheHashes, m \in Models, e \in Embeddings : CachePut(h, m, e)
    \/ \E items \in SeqsUpTo(CacheHashes \X Models \X Embeddings, MaxBatch) : CachePutBatch(items)
    \/ \E m \in Models \cup {NoModel} : CacheClear(m)

SpecCache == Init /\ [][NextCache]_vars

\* the cache with failing batches and restarts
NextCacheFaults ==
    \/ NextCache
    \/ \E done \in SeqsUpTo(CacheHashes \X Models \X Embeddings, MaxBatch - 1),
          m \in Models, e \in Embeddings : CachePutBatchRaises(done, m, e)
    \/ CacheReopen

SpecCacheFaults == Init /\ [][NextCacheFaults]_vars

-----------------------------------------------------------------------------
(* Properties of the pipeline, checked under Spec *)

\* C1: while the cache has not been cleared, at most one embed() call is
\* given any one chunk text.
C1_EmbedAtMostOnce ==
    ~cleared => \A t \in Texts : embedCalls[t] # "again"

\* C2: a pass of _index_file over a document that the preceding operation
\* already indexed (nothing happened in between) leaves the number of store
\* records of that document's source unchanged.
C2_RepeatPassKeepsCount ==
    [][(last.op = "pass" /\ last'.op = "pass" /\ last'.path = last.path)
         => SourceCount(store', last.path) = SourceCount(store, last.path)]_vars

\* C3: the store holds at most one record per chunk_hash.
C3_OneRecordPerHash ==
    \A t \in Texts : HashCount(store, ChunkHash(t)) <= 1

\* C4: right after the watcher callback handled a "deleted" event for a path,
\* the store holds no record whose source is that path.
C4_DeletedLeavesNoRecord ==
    last.op = "deleted" => SourceCount(store, last.path) = 0

\* a deleted event that found two records of the path, with records of the
\* other file still stored
C4_Witness ==
    /\ last.op = "deleted"
    /\ last.before = 2
    /\ store # EmptyBag

\* C5: right after the watcher re-indexed a file, every store record of that
\* source is a chunk of the file's content.
C5_NoStaleAfterWatch ==
    (last.op = "pass" /\ last.via = "watch")
        => \A r \in StoreRecords(store) :
               r.source = last.path => r.content \in Range(files[last.path])

\* the chunks of a document whose hash no store record carries
MissingChunks(st, path) ==
    SelectSeq(chunk_markdown(files[path], path),
              LAMBDA c : HashCount(st, c.chunk_hash) = 0)

\* C6: a non-forced pass embeds exactly the chunks whose hash the store did
\* not hold, adds one record for each of them and nothing else, and returns
\* their number.
C6_IncrementalPass ==
    [][(last'.op = "pass" /\ ~last'.force)
         => LET todo == MissingChunks(store, last'.path)
            IN  /\ last'.embedded = [i \in DOMAIN todo |-> todo[i].content]
                /\ last'.ret = Len(todo)
                /\ store' = store (+) BagOfSeq(
                       [i \in DOMAIN todo |->
                           [chunk_hash |-> todo[i].chunk_hash,
                            embedding  |-> Vector(todo[i].content),
                            content    |-> todo[i].content,
                            source     |-> last'.path,
                            doc_type   |-> "markdown"]])]_vars

\* a non-forced pass over a two-chunk document that wrote one chunk and
\* skipped the other
C6_Witness ==
    /\ last.op = "pass"
    /\ ~last.force
    /\ last.ret = 1
    /\ Len(files[last.path]) = 2
    /\ SourceCount(store, last.path) = last.before + 1

-----------------------------------------------------------------------------
(* Properties of the pipeline under failure, checked under SpecFaults *)

\* C12: an indexing call in which the embedding backend raised leaves the
\* store exactly as it was before the call.
C12_EmbedFailureWritesNothing ==
    [][last'.op = "embed_raised" => store' = store]_vars

\* C13: when a document fails inside index() (the file cannot be read or the
\* backend raises), index() goes on with the documents that remain, keeping
\* the count of what it has written so far.
C13_IndexSurvivesFailure ==
    [][(last'.via = "index" /\ last'.op \in {"raised", "embed_raised"})
         => idx' = IF idx.active
                   THEN AfterFile(Tail(idx.queue), idx.force, idx.total)
                   ELSE AfterFile(Tail(scan_paths(files)), last'.force, 0)]_vars

-----------------------------------------------------------------------------
(* Properties of flush, checked under SpecFlush *)

\* the number of stored records a flush of `source` is about
Matching(st, source) ==
    IF source = NoSource THEN BagCardinality(st) ELSE SourceCount(st, source)

\* the store record of the i-th chunk of a summary
FlushRecord(summary, i) ==
    [chunk_hash |-> ChunkHash(summary[i]), embedding |-> Vector(summary[i]),
     content |-> summary[i], source |-> FlushSource, doc_type |-> "flush"]

C15_FlushRoundTrip ==
    (last.op = "flush" /\ last.before > 0)
        => /\ last.summary # <<>>
           /\ \A i \in DOMAIN last.summary :
                  FlushRecord(last.summary, i) \in StoreRecords(store)

\* C16: a flush removes and alters no record: every record stored before it
\* is stored after it, as many times.
C16_FlushKeepsRecords ==
    [][last'.op = "flush"
         => \A r \in StoreRecords(store) :
                r \in StoreRecords(store') /\ store'[r] >= store[r]]_vars

-----------------------------------------------------------------------------
(* Properties of the watcher, checked under SpecWatch and Spec *)

\* C17: the watcher's state changes only from idle to watching, by start(),
\* which schedules exactly the roots that are directories, and from watching
\* to stopped, by stop(); once stopped, the callback is not invoked.
C17_WatcherLifecycle ==
    [][/\ watcher' # watcher
          => \/ /\ watcher = "idle"
                /\ watcher' = "watching"
                /\ last'.op = "start"
                /\ watched' = {"docs"}
             \/ /\ watcher = "watching"
                /\ watcher' = "stopped"
                /\ last'.op = "stop"
       /\ (watcher = "stopped" /\ last' # last) => last'.via # "watch"]_vars

\* the paths whose extension is .md or .markdown in any letter case
MarkdownNames == {"a.md", "b.md", "N.Markdown", "sub.md", "top.md"}

\* the records of a store whose source is not `source`
WithoutSource(st, source) ==
    [r \in {x \in DOMAIN st : x.source # source} |-> st[r]]

\* C18: while watching, the dispatch of a notification for a file (not a
\* directory) with a markdown extension invokes the callback once for that
\* path: a non-forced index_file pass for created / modified, delete_by_source
\* for deleted, and nothing else; the dispatch of any other notification
\* invokes nothing.
C18_DispatchFiltered ==
    [][(watcher = "watching" /\ events # <<>> /\ events' = Tail(events)
           /\ last'.op # "stop")
         => LET n == Head(events)
            IN  /\ files' = files
                /\ idx' = idx
                /\ IF ~n.is_directory /\ n.path \in MarkdownNames
                   THEN /\ last'.via = "watch"
                        /\ last'.path = n.path
                        /\ IF n.kind = "deleted"
                           THEN /\ last'.op = "deleted"
                                /\ store' = WithoutSource(store, n.path)
                                /\ embedCalls' = embedCalls
                           ELSE IF files[n.path] = NoFile
                           THEN /\ last'.op = "raised"
                                /\ store' = store
                                /\ embedCalls' = embedCalls
                           ELSE /\ last'.op = "pass"
                                /\ ~last'.force
                                /\ store' = index_file_pass(store, n.path,
                                                            files[n.path], FALSE).store
                   ELSE /\ last'.op = "ignored"
                        /\ store' = store
                        /\ embedCalls' = embedCalls]_vars

\* a created or modified notification for the file with the upper-case
\* extension that the callback indexed
C18_Witness ==
    /\ last.op = "pass"
    /\ last.via = "watch"
    /\ last.path = "N.Markdown"
    /\ last.ret = 2

\* C19: the callback handling the event it handled in the step before (the
\* file unchanged in between) leaves the store as the first handling left it.
C19_ReplayIdempotent ==
    [][last'.replay => store' = store]_vars

\* a created or modified event handled twice in a row for a file whose two
\* chunks the first handling stored
C19_Witness ==
    /\ last.replay
    /\ last.op = "pass"
    /\ last.before = 2
    /\ last.ret = 0
    /\ SourceCount(store, last.path) = 2

-----------------------------------------------------------------------------
(* Properties of the EmbeddingCache, checked under SpecCache *)

\* C7: with no clear so far, every key reads back the vector most recently
\* written to it, None when it was never written, and get returns that.
C7_LastWriteWins ==
    ~cleared =>
        /\ \A k \in Keys : get(cache, k[1], k[2]) = latest[k]
        /\ cop.op = "get" => cop.ret = latest[<<cop.hash, cop.model>>]

\* a put_batch that wrote one key twice with different vectors
C7_Witness ==
    /\ ~cleared
    /\ cop.op = "put_batch"
    /\ Len(cop.items) = 2
    /\ cop.items[1][1] = cop.items[2][1]
    /\ cop.items[1][2] = cop.items[2][2]
    /\ cop.items[1][3] # cop.items[2][3]
    /\ get(cache, cop.items[1][1], cop.items[1][2]) = cop.items[2][3]

\* C8: get_batch returns an entry for exactly the requested hashes, each what
\* get returns for it under the requested model.
C8_GetBatchTotal ==
    cop.op = "get_batch" =>
        /\ DOMAIN cop.ret = Range(cop.hashes)
        /\ \A h \in Range(cop.hashes) : cop.ret[h] = get(cache, h, cop.model)

\* a get_batch that found one hash and returned None for another, which is
\* stored under another model only
C8_Witness ==
    /\ cop.op = "get_batch"
    /\ \E h1, h2 \in Range(cop.hashes), m \in Models :
          /\ cop.ret[h1] # None
          /\ cop.ret[h2] = None
          /\ m # cop.model
          /\ get(cache, h2, m) # None

\* C9: clear(model=m) removes exactly the rows of model m and returns their
\* number; clear() removes every row and returns their number.
C9_ClearScoped ==
    [][cop'.op = "clear"
         => LET covered == {k \in Keys : cop'.model = NoModel \/ k[2] = cop'.model}
            IN  /\ \A k \in Keys :
                      cache'[k] = IF k \in covered THEN NoRow ELSE cache[k]
                /\ cop'.ret = Cardinality({k \in covered : cache[k] # NoRow})]_vars

-----------------------------------------------------------------------------
(* Properties of the EmbeddingCache under failure, checked under SpecCacheFaults *)

\* C11: a put_batch that raises leaves no row of its batch behind: the rows
\* the connection reads (which a later get / get_batch returns and a later
\* put / clear commits) and the committed rows are what they were before it.
C11_BatchAllOrNothing ==
    [][cop'.op = "put_batch_raised" => cache' = cache /\ disk' = disk]_vars

\* the markdown files the roots of a scan reach, by resolved path
Reached(paths, tree) ==
    {resolve(f) : f \in {e \in tree : /\ lower(suffix(e)) \in extensions
                                       /\ \E i \in DOMAIN paths :
                                            resolve(paths[i]) \in {ScanDir, e, resolve(e)}}}

\* C20: scan_paths returns each matching file the roots reach exactly once,
\* under its resolved path, in ascending path order: the result is the sorted
\* list of the resolved paths, whatever the order and repetition of the roots.
C20_ScanResolvedSorted ==
    scan.done =>
    /\ \A i, j \in DOMAIN scan.results :
           i < j => PathRank(scan.results[i]) < PathRank(scan.results[j])
    /\ \A i \in DOMAIN scan.results : scan.results[i] = resolve(scan.results[i])
    /\ Range(scan.results) = Reached(scan.roots, scan.tree)

\* the same, for a tree without symbolic links
C20_NoLinks ==
    "/docs/link.md" \notin scan.tree => C20_ScanResolvedSorted

\* the file listed twice and its parent directory listed too
C20_Witness ==
    /\ scan.done
    /\ scan.roots = <<"/docs/a.md", "/docs/a.md", "/docs">>
    /\ scan.tree = {"/docs/a.md", "/docs/b.md", "/docs/c.txt"}
    /\ scan.results = <<"/docs/a.md", "/docs/b.md">>

\* p is the directory d or lies under it
RECURSIVE Under(_, _)
Under(p, d) == p = d \/ (p # "/" /\ Under(Dir(p), d))

\* the file or a directory above it has a name that starts with a dot
RECURSIVE Hidden(_)
Hidden(p) == p # "/" /\ (startswith_dot(p) \/ Hidden(Dir(p)))

\* C21: with default settings scan_paths returns exactly the files under its
\* roots whose extension is .md or .markdown, whose name does not start with
\* a dot and that lie under no directory whose name starts with a dot.
C21_ScanSkipsHidden ==
    scan.done =>
        Range(scan.results) =
            {f \in scan.tree : /\ \E i \in DOMAIN scan.roots : Under(f, resolve(scan.roots[i]))
                               /\ lower(suffix(f)) \in extensions
                               /\ ~Hidden(f)}

\* the same, when no root is itself hidden or under a hidden directory
C21_VisibleRoots ==
    (\A i \in DOMAIN scan.roots : ~Hidden(scan.roots[i])) => C21_ScanSkipsHidden

\* a directory with a.md, N.Markdown, c.txt and the hidden .x.md
C21_Witness ==
    /\ scan.done
    /\ scan.roots = <<"/docs">>
    /\ scan.tree = {"/docs/a.md", "/docs/N.Markdown", "/docs/c.txt", "/docs/.x.md",
                    "/docs/.git/h.md"}
    /\ scan.results = <<"/docs/N.Markdown", "/docs/a.md">>

\* the content of a message when only text-typed blocks of a list count
TypedContent(content_raw) ==
    IF content_raw.t = "list" THEN text_parts_typed(content_raw.v) ELSE <<content_raw.v>>

\* a line that holds a user or assistant turn with content, Content(_) being
\* how the content is resolved
IsTurn(line, Content(_)) ==
    /\ strip(line) # ""
    /\ json_loads(strip(line)).t = "dict"
    /\ json_loads(strip(line)).type \in {"user", "assistant"}
    /\ json_loads(strip(line)).message.t = "dict"
    /\ ~is_blank(Content(json_loads(strip(line)).message.content))

SessionOf(line) ==
    IF json_loads(line).sessionId = Absent THEN "unknown" ELSE json_loads(line).sessionId

MessageOf(line, Content(_)) ==
    [role |-> IF json_loads(line).message.role = Absent
                  THEN json_loads(line).type ELSE json_loads(line).message.role,
     content |-> Content(json_loads(line).message.content)]

\* the session ids of the turns, each once, in first-seen order
RECURSIVE FirstSeen(_, _)
FirstSeen(turns, seen) ==
    IF turns = <<>> THEN <<>>
    ELSE IF SessionOf(Head(turns)) \in seen THEN FirstSeen(Tail(turns), seen)
    ELSE <<SessionOf(Head(turns))>>
             \o FirstSeen(Tail(turns), seen \cup {SessionOf(Head(turns))})

\* the sessions a log holds: its turns grouped by session id
Grouped(lines, Content(_)) ==
    LET turn(line) == IsTurn(line, Content)
        turns == SelectSeq(lines, turn)
        order == FirstSeen(turns, {})
    IN  [i \in DOMAIN order |->
            LET mine(line) == SessionOf(line) = order[i]
                own == SelectSeq(turns, mine)
            IN  [session_id |-> order[i],
                 messages |-> [k \in DOMAIN own |-> MessageOf(strip(own[k]), Content)]]]

\* C22: parse_session_file never raises on a line: lines that are blank,
\* unparsable, malformed or not a user/assistant turn are skipped, and the
\* turns left are grouped by sessionId ("unknown" when absent), sessions in
\* first-seen order and messages in file order; a missing or empty file
\* gives the empty list.
C22_ParseSkipsBadLines ==
    parse.done =>
        /\ ~parse.raised
        /\ parse.sessions = Grouped(parse.lines, content_of)

\* the same, for the calls that return
C22_WhenReturned ==
    (parse.done /\ ~parse.raised) => parse.sessions = Grouped(parse.lines, content_of)

\* C23: a list content resolves to the text of its text-typed blocks only,
\* in list order; a record whose content is blank after trimming gives no
\* message and a session without message is not returned.
C23_TextBlocksOnly ==
    (parse.done /\ ~parse.raised) =>
        /\ parse.sessions = Grouped(parse.lines, TypedContent)
        /\ \A i \in DOMAIN parse.sessions :
               /\ parse.sessions[i].messages # <<>>
               /\ \A k \in DOMAIN parse.sessions[i].messages :
                      ~is_blank(parse.sessions[i].messages[k].content)

\* the same, for logs without a bare string among the blocks of a list
C23_NoBareString ==
    (\A i \in DOMAIN parse.lines : parse.lines[i] # "bare_s1") => C23_TextBlocksOnly

\* a list with two text blocks around a tool_use block, and a session whose
\* only records are blank
C23_Witness ==
    /\ parse.done
    /\ parse.lines = <<"assistant_s1", "image_s2", "blank_s2">>
    /\ Len(parse.sessions) = 1
    /\ parse.sessions[1].messages = <<[role |-> "assistant", content |-> <<"T1", "T2">>]>>

\* C24: every open MemSearch instance works on a store collection whose
\* vector dimension is the dimension of the instance's embedding backend.
C24_DimensionsAgree ==
    \A i \in DOMAIN instances :
        instances[i].open => collections[instances[i].uri] = instances[i].dimension

\* the same, for the instance that created the collection of its URI
C24_Creator ==
    \A i \in DOMAIN instances :
        (\A k \in 1..(i - 1) : instances[k].uri # instances[i].uri)
            => collections[instances[i].uri] = instances[i].dimension

\* the texts of a document that a batch holds, in document order
InOrder(document, batch) ==
    LET held(t) == t \in Range(batch)
    IN  SelectSeq(document, held)

\* C25: an indexing pass over one document (a markdown file, a session log,
\* a flush summary) calls the embedding backend at most once, with the texts
\* of the chunks to embed in document order, and the record written for
\* chunk i carries the i-th embedding returned.
C25_OneBatchInOrder ==
    [][last'.op \in {"pass", "session", "flush"} =>
        /\ Len(last'.batches) <= 1
        /\ Len(last'.written) = IF last'.batches = <<>> THEN 0 ELSE Len(last'.batches[1])
        /\ \A i \in DOMAIN last'.written :
               /\ last'.written[i].content = last'.batches[1][i]
               /\ last'.written[i].embedding = embed(last'.batches[1])[i]
        /\ (last'.op = "pass" /\ last'.batches # <<>>)
               => last'.batches[1] = InOrder(files[last'.path], last'.batches[1])
        /\ (last'.op = "flush" /\ last'.batches # <<>>)
               => last'.batches[1] = last'.summary]_vars

\* the same, for the passes over a markdown file or a flush summary
C25_FilesAndSummaries ==
    [][last'.op \in {"pass", "flush"} =>
        /\ Len(last'.batches) <= 1
        /\ Len(last'.written) = IF last'.batches = <<>> THEN 0 ELSE Len(last'.batches[1])
        /\ \A i \in DOMAIN last'.written :
               /\ last'.written[i].content = last'.batches[1][i]
               /\ last'.written[i].embedding = embed(last'.batches[1])[i]
        /\ (last'.op = "pass" /\ last'.batches # <<>>)
               => last'.batches[1] = InOrder(files[last'.path], last'.batches[1])
        /\ (last'.op = "flush" /\ last'.batches # <<>>)
               => last'.batches[1] = last'.summary]_vars

\* C26: a pass of _index_file over file A, forced or not, leaves every record
\* whose source is another file as it was: none added, removed or changed.
C26_OtherSourcesUntouched ==
    [][last'.op = "pass" =>
        WithoutSource(store', last'.path) = WithoutSource(store, last'.path)]_vars

\* the same, for the passes that are not forced
C26_Incremental ==
    [][(last'.op = "pass" /\ ~last'.force) =>
        WithoutSource(store', last'.path) = WithoutSource(store, last'.path)]_vars

\* the store holds a record of the passage t
Holds(st, t) == \E r \in DOMAIN st : r.chunk_hash = ChunkHash(t)

\* C29: when the 'deleted' event of file P has been processed, the store
\* holds every passage of every other file that exists and has been indexed
\* with its present content, passages whose text P held too included.
C29_DeleteKeepsOtherFiles ==
    [][(last'.op = "deleted" /\ last'.via = "watch") =>
        \A q \in indexed \ {last'.path} :
            \A i \in DOMAIN files[q] : Holds(store', files[q][i])]_vars

\* the records whose source is another file stay as they are
C29_OtherRecordsStay ==
    [][(last'.op = "deleted" /\ last'.via = "watch") =>
        WithoutSource(store', last'.path) = WithoutSource(store, last'.path)]_vars

\* C30: a failure while the callback handles an event leaves the watcher
\* watching, so that later events are still dispatched and processed.
C30_WatcherSurvivesFailure ==
    [][(watcher = "watching" /\ last'.via = "watch" /\ last'.op \in {"raised", "embed_raised"})
        => watcher' = "watching"]_vars

\* C27: stop() called while a callback is in flight does not abort it: the
\* call to stop() changes neither the store nor the pass, it returns only
\* when the callback has returned, a delete of the upsert is always followed
\* by its insert, and no further event is taken once stop() was called.
C27_StopLetsPassFinish ==
    [][/\ (watcher' # watcher /\ watcher' \in {"stopping", "stopped"})
            => /\ store' = store
               /\ flight' = flight
               /\ watcher' = "stopped" => flight.stage = "idle"
       /\ (flight.stage = "deleted" /\ flight' # flight)
            => /\ flight'.stage = "stored"
               /\ store' = store (+) BagOfSeq(flight.records)
       /\ (watcher \in {"stopping", "stopped"} /\ flight.stage = "idle")
            => flight'.stage = "idle"]_vars

\* stop() was called during the pass, and the insert has been applied since
C27_Witness ==
    /\ watcher = "stopping"
    /\ last.op = "inserted"
    /\ flight.stage = "stored"
    /\ SourceCount(store, last.path) = 2

\* C28: the on_event callback is invoked once for every event the watch
\* callback handles, with the event's type and path, after the store
\* operation of the event: a callback call ends with on_event, and on_event
\* is only invoked when the store operation is done.
C28_OnEventOncePerEvent ==
    [][/\ last'.op = "on_event"
            => /\ flight.stage = "stored"
               /\ last'.event_type = flight.event_type
               /\ last'.path = flight.file_path
       /\ (flight.stage # "idle" /\ flight'.stage = "idle") => last'.op = "on_event"]_vars

\* the same, for the events whose store operation completes
C28_WhenStored ==
    [][/\ last'.op = "on_event"
            => /\ flight.stage = "stored"
               /\ last'.event_type = flight.event_type
               /\ last'.path = flight.file_path
       /\ (flight.stage = "stored" /\ flight' # flight) => last'.op = "on_event"]_vars

\* the files that exist, and what scan_paths([docs]) with default settings
\* returns for them, whatever the order os.walk lists them in
Existing == {f \in DOMAIN files : files[f] # NoFile}
Scanned(order) == Range(scan_paths_in(<<ScanDir>>, Existing, order))

\* C31: a file the watcher indexes on a created or modified event under the
\* watched root is a file scan_paths with default settings returns for that
\* root; hidden files and files under hidden directories are never indexed
\* by the watcher.
C31_WatcherAgreesWithScanner ==
    [][(last'.op = "pass" /\ last'.via = "watch")
         => /\ last'.path \in Scanned(Ascending(Existing))
            /\ last'.path \in Scanned(Descending(Existing))
            /\ ~Hidden(last'.path)]_vars

\* the same, for the files that are not hidden: the two agree on the
\* extensions and on the sub-directories
C31_VisibleFilesAgree ==
    [][(last'.op = "pass" /\ last'.via = "watch" /\ ~Hidden(last'.path))
         => /\ last'.path \in Scanned(Ascending(Existing))
            /\ last'.path \in Scanned(Descending(Existing))]_vars

\* the store holds passage t under the source q
HoldsUnder(st, q, t) ==
    \E r \in DOMAIN st : r.source = q /\ r.chunk_hash = ChunkHash(t)

\* the observer thread handles the notification of a rename, the last one
\* queued
MovedHandled ==
    /\ watcher = "watching"
    /\ events # <<>>
    /\ Head(events).kind = "moved"
    /\ last'.via = "watch"
    /\ events' = <<>>

\* C32: after a watched markdown file was renamed from P to Q inside the
\* watched root and the watcher has processed the notifications, the store
\* holds no record with source P and holds the chunks of the file under
\* source Q.
C32_IndexFollowsRename ==
    [][MovedHandled =>
        /\ SourceCount(store', Head(events).path) = 0
        /\ LET Q == Head(events).dest_path
           IN  files[Q] # NoFile =>
                   \A i \in DOMAIN files[Q] : HoldsUnder(store', Q, files[Q][i])]_vars

\* what the code does with the notification of a rename: nothing
C32_RenameIgnored ==
    [][MovedHandled => (store' = store /\ last'.op = "ignored")]_vars

====
